---- MODULE Spec2Model ----
(***************************************************************************)
(* Waste-sorting monitor: the frame analysis of models/detect_api.py, the  *)
(* camera loop of models/detect.py and the dataset conversion of           *)
(* scripts/convert_taco_to_yolo.py.                                        *)
(*                                                                         *)
(* Units.  A confidence is an integer number of 1/10000 (0.9004 is 9004);  *)
(* a confidence rounded to three decimals is an integer number of 1/1000.  *)
(* The clock counts ticks, TicksPerSecond of them in one second.  A value  *)
(* printed with six decimals is an integer number of 1/1000000.  Python    *)
(* lists are sequences, so index i of the code is index i + 1 here.        *)
(***************************************************************************)
EXTENDS Integers, Sequences, FiniteSets, TLC

VARIABLES
    clock,       \* datetime.now(), in ticks
    snapshots,   \* the snapshot directory: path -> file written there
    calls,       \* detect_api: frames handed to analyze_frame so far
    request,     \* detect_api: the arguments of the last analyze_frame call
    output,      \* detect_api: the dict the last analyze_frame call returned
    pc,          \* detect: position of start_camera
    BIN_TYPE,    \* detect: the module global set from --bin
    iters,       \* detect: iterations of the while loop completed
    keyChecks,   \* detect: calls of cv2.waitKey made
    log,         \* detect: the "Snapshot saved" lines printed
    last,        \* detect: what the last processed frame did
    cpc,         \* convert: position of the script
    images,      \* convert: data["images"] with what is on disk
    image_ids,   \* convert: the list of ids, shuffled by the split
    train_ids,   \* convert
    val_ids,     \* convert
    test_ids,    \* convert
    idx,         \* convert: images of the loop already visited
    out,         \* convert: files written under OUT
    counters,    \* convert: copied, labeled, boxes
    printed      \* convert: lines printed by the loop and the summary

apiVars == <<calls, request, output>>
camVars == <<pc, BIN_TYPE, iters, keyChecks, log, last>>
convVars == <<cpc, images, image_ids, train_ids, val_ids, test_ids, idx, out,
              counters, printed>>
vars == <<clock, snapshots, apiVars, camVars, convVars>>

----------------------------------------------------------------------------
(* Bounds *)

MaxDets == 2          \* detections in one frame
MaxCalls == 1         \* calls of analyze_frame
MaxFrames == 2        \* iterations of the camera loop
MaxClock == 2         \* ticks the clock may advance
TicksPerSecond == 2   \* sub-second resolution of the clock
MaxImages == 6        \* images in the annotation manifest

----------------------------------------------------------------------------
(* Detections, shared by detect_api.py and detect.py *)

THRESHOLD == 5000

CLASS_MAP == [c \in {0, 1} |-> IF c = 0 THEN "dry" ELSE "wet"]

Bins == {"dry", "wet"}

\* Confidences the detector may report: it drops those under THRESHOLD.  None
\* ends in the digit 5, where round(x, 3) depends on the binary value of x.
Confs == {c \in {4000, 6000, 9004} : c >= THRESHOLD}

\* results[0].boxes: one (cls, conf) pair per box
Boxes == [cls : DOMAIN CLASS_MAP, conf : Confs]

RECURSIVE SeqsUpTo(_, _)
SeqsUpTo(S, n) ==
    IF n = 0 THEN {<<>>}
    ELSE LET shorter == SeqsUpTo(S, n - 1)
         IN  shorter \cup {Append(s, x) : s \in {t \in shorter : Len(t) = n - 1}, x \in S}

DetectionSeqs == SeqsUpTo(Boxes, MaxDets)

Range(s) == {s[i] : i \in DOMAIN s}

Max(s) == CHOOSE m \in Range(s) : \A x \in Range(s) : x <= m

\* list.index(x): the first position holding x
IndexOf(s, x) == CHOOSE i \in DOMAIN s : s[i] = x /\ \A j \in 1..(i - 1) : s[j] # x

----------------------------------------------------------------------------
(* Snapshots *)

\* strftime("%Y%m%d_%H%M%S"): the clock cut to whole seconds
TimestampCoarse(now) == now \div (TicksPerSecond * 2)
Timestamp(now) == now \div TicksPerSecond

\* SNAPSHOT_DIR / f"violation_{timestamp}.jpg"
SnapshotPath(now) == <<"snapshots", "violation", Timestamp(now)>>

\* cv2.imwrite: writes the file and returns True, or writes nothing and
\* returns False (ok = FALSE: the directory is not writable)
imwrite(dir, path, frame, now, ok) ==
    [dir |-> IF ok THEN (path :> [frame |-> frame, mtime |-> now]) @@ dir ELSE dir,
     retval |-> ok]

\* save_snapshot: the return value of imwrite is dropped
save_snapshot(dir, frame, now, ok) ==
    [dir |-> imwrite(dir, SnapshotPath(now), frame, now, ok).dir,
     path |-> SnapshotPath(now)]

NoPath == <<>>

\* The clock advances between any two steps of either pipeline; the time
\* that passes inside a call of analyze_frame is part of that action.
Tick ==
    /\ clock < MaxClock
    /\ clock' = clock + 1
    /\ UNCHANGED <<snapshots, apiVars, camVars, convVars>>

----------------------------------------------------------------------------
(* models/detect_api.py *)

\* round(top_conf, 3), away from the halfway cases
Round3(c) == (c + 5) \div 10

WasteTypes(dets) == [i \in DOMAIN dets |-> CLASS_MAP[dets[i].cls]]
Confidences(dets) == [i \in DOMAIN dets |-> dets[i].conf]

IsMixedByCount(waste_types) == Len(waste_types) > 1
IsMixed(waste_types) == Cardinality(Range(waste_types)) > 1

TopIndexLast(confidences) ==
    CHOOSE i \in DOMAIN confidences :
        /\ confidences[i] = Max(confidences)
        /\ \A j \in (i + 1)..Len(confidences) : confidences[j] # Max(confidences)
TopIndex(confidences) == IndexOf(confidences, Max(confidences))

IsViolationSame(top_type, correct_bin) == top_type = correct_bin
IsViolation(top_type, correct_bin) == top_type # correct_bin

\* The result of analyze_frame and the directory it leaves.  The call reads
\* the clock twice: now in save_snapshot (line 29), stamp for "timestamp"
\* (line 52 or 88), after the write.
AnalyzeFrame(dir, frame, dets, correct_bin, now, stamp, ok) ==
    IF Len(dets) = 0
    THEN [dir |-> dir,
          result |-> [class |-> "None", wet_dry |-> "None", confidence |-> "None",
                      is_mixed |-> FALSE, is_violation |-> FALSE,
                      snapshot_path |-> NoPath, timestamp |-> stamp]]
    ELSE LET waste_types == WasteTypes(dets)
             confidences == Confidences(dets)
             top_index == TopIndex(confidences)
             top_type == waste_types[top_index]
             top_conf == Max(confidences)
             is_violation == IsViolation(top_type, correct_bin)
             saved == save_snapshot(dir, frame, now, ok)
         IN  [dir |-> IF is_violation THEN saved.dir ELSE dir,
              result |-> [class |-> top_type, wet_dry |-> top_type,
                          confidence |-> Round3(top_conf),
                          is_mixed |-> IsMixed(waste_types),
                          is_violation |-> is_violation,
                          snapshot_path |-> IF is_violation THEN saved.path ELSE NoPath,
                          timestamp |-> stamp]]

NoRequest == [frame |-> 0, dets |-> <<>>, correct_bin |-> "dry"]
NoOutput == [class |-> "None", wet_dry |-> "None", confidence |-> "None",
             is_mixed |-> FALSE, is_violation |-> FALSE,
             snapshot_path |-> NoPath, timestamp |-> 0]

analyze_frame ==
    /\ calls < MaxCalls
    /\ \E dets \in DetectionSeqs, correct_bin \in Bins, ok \in BOOLEAN,
          stamp \in clock..MaxClock :
          LET r == AnalyzeFrame(snapshots, <<"api", calls + 1>>, dets, correct_bin,
                                clock, stamp, ok)
          IN  /\ request' = [frame |-> calls + 1, dets |-> dets,
                             correct_bin |-> correct_bin]
              /\ output' = r.result
              /\ snapshots' = r.dir
              /\ clock' = stamp
    /\ calls' = calls + 1
    /\ UNCHANGED <<camVars, convVars>>

----------------------------------------------------------------------------
(* models/detect.py *)

\* detect_and_draw: the flag it returns; the boxes it draws stay in the frame
detect_and_draw(dets, bin) ==
    \E i \in DOMAIN dets : CLASS_MAP[dets[i].cls] # bin

\* Values cv2.waitKey may return: no key, "q", "q" with a modifier bit
Keys == {-1, 113, 369}

ORD_Q == 113

\* cv2.waitKey(1) & 0xFF == ord("q")
IsQuit(key) == key % 256 = ORD_Q

NoFrame == [frame |-> 0, dets |-> <<>>, violation |-> FALSE, path |-> NoPath]

\* start_camera up to the loop: weights lookup and camera open
StartCamera ==
    /\ pc = "start"
    /\ \E weights_found \in BOOLEAN, opened \in BOOLEAN :
          pc' = IF ~weights_found THEN "raised"
                ELSE IF ~opened THEN "returned"
                ELSE "loop"
    /\ UNCHANGED <<clock, snapshots, apiVars, BIN_TYPE, iters, keyChecks, log, last,
                   convVars>>

\* One iteration whose cap.read() returns ret = False: continue
SkipFrame ==
    /\ pc = "loop"
    /\ iters < MaxFrames
    /\ iters' = iters + 1
    /\ UNCHANGED <<clock, snapshots, apiVars, pc, BIN_TYPE, keyChecks, log, last,
                   convVars>>

\* One iteration whose cap.read() returns a frame, up to the break and the
\* cap.release() that follows it
Frame ==
    /\ pc = "loop"
    /\ iters < MaxFrames
    /\ \E dets \in DetectionSeqs, key \in Keys, ok \in BOOLEAN :
          LET frame == <<"cam", iters + 1>>
              violation == detect_and_draw(dets, BIN_TYPE)
              saved == save_snapshot(snapshots, frame, clock, ok)
          IN  /\ snapshots' = IF violation THEN saved.dir ELSE snapshots
              /\ log' = IF violation
                        THEN Append(log, [frame |-> iters + 1, path |-> saved.path])
                        ELSE log
              /\ last' = [frame |-> iters + 1, dets |-> dets, violation |-> violation,
                          path |-> IF violation THEN saved.path ELSE NoPath]
              /\ pc' = IF IsQuit(key) THEN "released" ELSE "loop"
    /\ keyChecks' = keyChecks + 1
    /\ iters' = iters + 1
    /\ UNCHANGED <<clock, apiVars, BIN_TYPE, convVars>>

----------------------------------------------------------------------------
(* scripts/convert_taco_to_yolo.py *)

\* Images a manifest may list.  width = 0 stands for a width the manifest
\* leaves out (the code tests "not w"); fileW, fileH are the size of the
\* file on disk; bbox is (x, y, bw, bh).
ImageKinds == <<
    [exists |-> TRUE, width |-> 100, height |-> 200, fileW |-> 100, fileH |-> 200,
     anns |-> <<[category_id |-> 0, bbox |-> <<10, 20, 30, 40>>]>>],
    [exists |-> FALSE, width |-> 100, height |-> 200, fileW |-> 0, fileH |-> 0,
     anns |-> <<[category_id |-> 1, bbox |-> <<0, 0, 50, 50>>]>>],
    [exists |-> TRUE, width |-> 0, height |-> 0, fileW |-> 3, fileH |-> 3,
     anns |-> <<[category_id |-> 2, bbox |-> <<0, 0, 1, 1>>],
                [category_id |-> 0, bbox |-> <<1, 1, 2, 1>>]>>],
    [exists |-> TRUE, width |-> 100, height |-> 200, fileW |-> 100, fileH |-> 200,
     anns |-> <<[category_id |-> 0, bbox |-> <<90, 20, 30, 40>>]>>],
    [exists |-> TRUE, width |-> 100, height |-> 200, fileW |-> 100, fileH |-> 200,
     anns |-> <<>>],
    [exists |-> TRUE, width |-> 320, height |-> 320, fileW |-> 320, fileH |-> 320,
     anns |-> <<[category_id |-> 1, bbox |-> <<0, 0, 1, 1>>],
                [category_id |-> 1, bbox |-> <<1, 1, 1, 1>>]>>] >>

\* A manifest of n images with ids 1..n, file i named after its id, the kinds
\* taken in rotation from ImageKinds starting at shift
Manifest(n, shift) ==
    [i \in 1..n |->
        [id |-> i, file_name |-> i,
         kind |-> ImageKinds[((i - 1 + shift) % Len(ImageKinds)) + 1]]]

Manifests == {Manifest(n, shift) : n \in 0..MaxImages, shift \in 0..(Len(ImageKinds) - 1)}

Min(a, b) == IF a <= b THEN a ELSE b

\* set(s[a:b]) for 0 <= a <= b
SliceFromPrevious(s, a, b) == {s[i] : i \in (IF a = 0 THEN 1 ELSE a)..Min(b, Len(s))}
Slice(s, a, b) == {s[i] : i \in (a + 1)..Min(b, Len(s))}

\* int(0.8*n) and int(0.9*n): for n below 2000000 the float products
\* truncate to the integer quotients
TrainEnd(n) == (8 * n) \div 10
ValEnd(n) == (9 * n) \div 10

\* random.shuffle: any order of the ids
Shuffles(ids) ==
    {[i \in DOMAIN ids |-> ids[p[i]]] : p \in Permutations(DOMAIN ids)}

\* ".6f": six decimals
Million == 1000000

\* The binary exponent of num/den > 0: the k with 2^k <= num/den < 2^(k+1)
RECURSIVE HalvingsToFit(_, _)
HalvingsToFit(num, den) == IF 2 * den <= num THEN 1 + HalvingsToFit(num, 2 * den) ELSE 0

RECURSIVE DoublingsToFit(_, _)
DoublingsToFit(num, den) == IF num < den THEN 1 + DoublingsToFit(2 * num, den) ELSE 0

BinaryExponent(num, den) ==
    IF num >= den THEN HalvingsToFit(num, den) ELSE 0 - DoublingsToFit(num, den)

\* (a * 2^e) mod m, ten bits at a time (m below 2^20)
RECURSIVE ShiftMod(_, _, _)
ShiftMod(a, m, e) ==
    IF e >= 10 THEN ShiftMod(((a % m) * 1024) % m, m, e - 10)
    ELSE ((a % m) * 2^e) % m

\* The float division a / b of line 91-94 gives the double nearest to num/den
\* (53 significant bits, ties to the even one).  Whether that double is
\* above (1), below (-1) or equal to (0) num/den: the quotient is scaled to
\* 53 bits and the remainder of the division decides.
DoubleError(num, den) ==
    IF num = 0 THEN 0
    ELSE LET s == ShiftMod(num, 2 * den, 52 - BinaryExponent(num, den))
             frac == s % den
             odd == s >= den
         IN  IF frac = 0 THEN 0
             ELSE IF 2 * frac > den \/ (2 * frac = den /\ odd) THEN 1
             ELSE -1

\* f"{v:.6f}" of the double v computed for num/den >= 0: the multiple of
\* 1/1000000 nearest to the double.  When num/den is exactly halfway the
\* side the double fell on decides, and the even multiple when the double is
\* exact.
Fmt6(num, den) ==
    LET q == (num * Million) \div den
        r == (num * Million) % den
        up == IF 2 * r # den THEN 2 * r > den
              ELSE IF DoubleError(num, den) = 0 THEN q % 2 = 1
              ELSE DoubleError(num, den) = 1
    IN  IF up THEN q + 1 ELSE q

\* w, h = img.get("width"), img.get("height"); if not w or not h: im.size
ResolvedSize(kind) ==
    IF kind.width = 0 \/ kind.height = 0
    THEN <<kind.fileW, kind.fileH>>
    ELSE <<kind.width, kind.height>>

\* One label line: xc = (x + bw/2)/w, yc = (y + bh/2)/h, wn = bw/w, hn = bh/h
YoloLine(ann, w, h) ==
    LET x == ann.bbox[1]
        y == ann.bbox[2]
        bw == ann.bbox[3]
        bh == ann.bbox[4]
    IN  [cat |-> ann.category_id,
         xc |-> Fmt6(2 * x + bw, 2 * w),
         yc |-> Fmt6(2 * y + bh, 2 * h),
         wn |-> Fmt6(bw, w),
         hn |-> Fmt6(bh, h)]

YoloLines(kind) ==
    LET size == ResolvedSize(kind)
    IN  [k \in DOMAIN kind.anns |-> YoloLine(kind.anns[k], size[1], size[2])]

SplitOf(img_id, train, val) ==
    IF img_id \in train THEN "train"
    ELSE IF img_id \in val THEN "val"
    ELSE "test"

\* lines 30-42: shuffle the ids and cut the three sets
Split ==
    /\ cpc = "split"
    /\ \E shuffled \in Shuffles([i \in DOMAIN images |-> images[i].id]) :
          LET n == Len(shuffled)
          IN  /\ image_ids' = shuffled
              /\ train_ids' = Slice(shuffled, 0, TrainEnd(n))
              /\ val_ids' = Slice(shuffled, TrainEnd(n), ValEnd(n))
              /\ test_ids' = Slice(shuffled, ValEnd(n), n)
    /\ cpc' = "loop"
    /\ UNCHANGED <<clock, snapshots, apiVars, camVars, images, idx, out, counters,
                   printed>>

\* lines 56-105: one iteration of "for img in images"
ConvertImage ==
    /\ cpc = "loop"
    /\ idx < Len(images)
    /\ LET img == images[idx + 1]
           split == SplitOf(img.id, train_ids, val_ids)
           yolo_lines == YoloLines(img.kind)
       IN  IF ~img.kind.exists
           THEN /\ printed' = Append(printed, <<"Missing image:", img.file_name>>)
                /\ UNCHANGED <<out, counters>>
           ELSE /\ out' = out \cup
                      {[split |-> split, dir |-> "images", name |-> img.file_name,
                        lines |-> <<>>],
                       [split |-> split, dir |-> "labels", name |-> img.file_name,
                        lines |-> yolo_lines]}
                /\ counters' =
                      [copied |-> counters.copied + 1,
                       labeled |-> counters.labeled + (IF Len(yolo_lines) > 0 THEN 1 ELSE 0),
                       boxes |-> counters.boxes + Len(yolo_lines)]
                /\ UNCHANGED printed
    /\ idx' = idx + 1
    /\ UNCHANGED <<clock, snapshots, apiVars, camVars, cpc, images, image_ids,
                   train_ids, val_ids, test_ids>>

\* lines 107-129: the summary and data.yaml
Finish ==
    /\ cpc = "loop"
    /\ idx = Len(images)
    /\ printed' = printed \o
          << <<"Conversion complete!">>,
             <<"Images copied:", counters.copied>>,
             <<"Images with labels:", counters.labeled>>,
             <<"Total bounding boxes:", counters.boxes>> >>
    /\ out' = out \cup {[split |-> "", dir |-> "", name |-> "data.yaml", lines |-> <<>>]}
    /\ cpc' = "done"
    /\ UNCHANGED <<clock, snapshots, apiVars, camVars, images, image_ids, train_ids,
                   val_ids, test_ids, idx, counters>>

----------------------------------------------------------------------------
(* Specifications, one per entry point *)

ApiIdle == calls = 0 /\ request = NoRequest /\ output = NoOutput

CamIdle ==
    /\ pc = "start" /\ iters = 0 /\ keyChecks = 0 /\ log = <<>> /\ last = NoFrame

ConvIdle ==
    /\ cpc = "split" /\ image_ids = <<>> /\ train_ids = {} /\ val_ids = {}
    /\ test_ids = {} /\ idx = 0 /\ out = {}
    /\ counters = [copied |-> 0, labeled |-> 0, boxes |-> 0]
    /\ printed = <<>>

\* detect_api.py imported: analyze_frame is called frame after frame
Init ==
    /\ clock = 0 /\ snapshots = <<>>
    /\ ApiIdle
    /\ CamIdle /\ BIN_TYPE = "dry"
    /\ ConvIdle /\ images = <<>>

Next == analyze_frame \/ Tick

Spec == Init /\ [][Next]_vars

\* detect.py run as a script: BIN_TYPE = args.bin, then start_camera
CamInit ==
    /\ clock = 0 /\ snapshots = <<>>
    /\ ApiIdle
    /\ CamIdle /\ BIN_TYPE \in Bins
    /\ ConvIdle /\ images = <<>>

CamNext == StartCamera \/ SkipFrame \/ Frame \/ Tick

CamSpec == CamInit /\ [][CamNext]_vars

\* convert_taco_to_yolo.py run on one manifest
ConvInit ==
    /\ clock = 0 /\ snapshots = <<>>
    /\ ApiIdle
    /\ CamIdle /\ BIN_TYPE = "dry"
    /\ ConvIdle /\ images \in Manifests

ConvNext == Split \/ ConvertImage \/ Finish

ConvSpec == ConvInit /\ [][ConvNext]_vars

----------------------------------------------------------------------------
(* Properties *)

\* dets[i] has the maximum confidence and is the first detection to have it
Dominant(dets, i) ==
    /\ \A j \in DOMAIN dets : dets[j].conf <= dets[i].conf
    /\ \A j \in 1..(i - 1) : dets[j].conf < dets[i].conf

Called == request.frame > 0

\* C1 as stated: for a non-empty detection sequence analyze_frame reports the
\* class and the confidence of the first detection of maximum confidence
\* (output.confidence counts 1/1000, a detection's confidence 1/10000).
C1_DominantExact ==
    (Called /\ request.dets # <<>>) =>
        \E i \in DOMAIN request.dets :
            /\ Dominant(request.dets, i)
            /\ output.class = CLASS_MAP[request.dets[i].cls]
            /\ output.wet_dry = CLASS_MAP[request.dets[i].cls]
            /\ 10 * output.confidence = request.dets[i].conf

\* C1 amended: the reported class is that of the first detection of maximum
\* confidence, and the reported confidence is that detection's confidence
\* rounded to three decimals (a multiple of 1/1000 at most 0.0005 away).
C1_DominantRounded ==
    (Called /\ request.dets # <<>>) =>
        \E i \in DOMAIN request.dets :
            /\ Dominant(request.dets, i)
            /\ output.class = CLASS_MAP[request.dets[i].cls]
            /\ output.wet_dry = CLASS_MAP[request.dets[i].cls]
            /\ 10 * output.confidence - request.dets[i].conf \in -5..5

\* Two detections tie at 0.9004 with different classes: the first one is
\* reported, with confidence 0.9.
C1_Witness ==
    /\ Called
    /\ request.dets = <<[cls |-> 1, conf |-> 9004], [cls |-> 0, conf |-> 9004]>>
    /\ output.class = "wet"
    /\ output.confidence = 900

\* C2: is_violation is true exactly when the sequence is non-empty and the
\* class of its dominant detection differs from the expected bin; an empty
\* sequence gives is_violation false and no dominant class.
C2_Violation ==
    Called =>
        /\ output.is_violation <=>
              /\ request.dets # <<>>
              /\ \E i \in DOMAIN request.dets :
                    /\ Dominant(request.dets, i)
                    /\ CLASS_MAP[request.dets[i].cls] # request.correct_bin
        /\ request.dets = <<>> =>
              /\ ~output.is_violation
              /\ output.class = "None"
              /\ output.wet_dry = "None"

\* A dominant wet detection over a weaker dry one, expected bin dry: violation.
C2_Witness ==
    /\ Called
    /\ request.dets = <<[cls |-> 0, conf |-> 6000], [cls |-> 1, conf |-> 9004]>>
    /\ request.correct_bin = "dry"
    /\ output.is_violation

\* C3 as stated: the camera loop flags a frame (alert drawn, snapshot saved)
\* exactly when the class of its dominant detection differs from the
\* expected bin.
C3_CameraFlagsDominant ==
    last.frame > 0 =>
        /\ last.violation <=>
              \E i \in DOMAIN last.dets :
                  /\ Dominant(last.dets, i)
                  /\ CLASS_MAP[last.dets[i].cls] # BIN_TYPE
        /\ last.violation <=> last.path # NoPath

\* C4: is_mixed is true exactly when two detections carry different class
\* labels, whatever the number of detections.
C4_Mixed ==
    Called =>
        (output.is_mixed <=>
            \E i, j \in DOMAIN request.dets :
                CLASS_MAP[request.dets[i].cls] # CLASS_MAP[request.dets[j].cls])

\* Two detections of one class: not mixed.
C4_Witness ==
    /\ Called
    /\ Len(request.dets) = 2
    /\ request.dets[1].cls = request.dets[2].cls
    /\ ~output.is_mixed

ManifestIds == {images[i].id : i \in DOMAIN images}

SplitNames == {"train", "val", "test"}

\* C5: train, val and test are pairwise disjoint, cover the ids, have
\* floor(0.8n), floor(0.9n) - floor(0.8n) and n - floor(0.9n) members, and
\* every image the loop has copied lies in exactly one split.
C5_Split ==
    cpc # "split" =>
        LET n == Len(images)
            t == Cardinality(train_ids)
            tv == Cardinality(train_ids) + Cardinality(val_ids)
        IN  /\ train_ids \cap val_ids = {}
            /\ train_ids \cap test_ids = {}
            /\ val_ids \cap test_ids = {}
            /\ train_ids \cup val_ids \cup test_ids = ManifestIds
            /\ 10 * t <= 8 * n /\ 8 * n < 10 * (t + 1)
            /\ 10 * tv <= 9 * n /\ 9 * n < 10 * (tv + 1)
            /\ Cardinality(test_ids) = n - tv
            /\ \A i \in 1..idx :
                  images[i].kind.exists =>
                      Cardinality({sp \in SplitNames :
                          \E f \in out : f.split = sp /\ f.name = images[i].file_name}) = 1

\* Six images, all visited: four in train, one in val, one in test.
C5_Witness ==
    /\ cpc = "done"
    /\ Len(images) = 6
    /\ Cardinality(train_ids) = 4
    /\ Cardinality(val_ids) = 1
    /\ Cardinality(test_ids) = 1

\* e, a number of 1/1000000, is num/den to six decimals: at most half of
\* 1/1000000 away from it
SixDecimalsOf(e, num, den) ==
    /\ 2 * e * den - 2 * num * Million <= den
    /\ 2 * num * Million - 2 * e * den <= den

\* C6 as stated: every label line carries (x + bw/2)/w, (y + bh/2)/h, bw/w and
\* bh/h of its annotation, printed with six decimals, and all four values lie
\* in [0, 1].
C6_Normalized ==
    \A f \in out :
        f.dir = "labels" =>
            \A i \in DOMAIN images :
                images[i].file_name = f.name =>
                    LET kind == images[i].kind
                        w == ResolvedSize(kind)[1]
                        h == ResolvedSize(kind)[2]
                    IN  /\ Len(f.lines) = Len(kind.anns)
                        /\ \A k \in DOMAIN f.lines :
                              LET b == kind.anns[k].bbox
                                  l == f.lines[k]
                              IN  /\ l.cat = kind.anns[k].category_id
                                  /\ SixDecimalsOf(l.xc, 2 * b[1] + b[3], 2 * w)
                                  /\ SixDecimalsOf(l.yc, 2 * b[2] + b[4], 2 * h)
                                  /\ SixDecimalsOf(l.wn, b[3], w)
                                  /\ SixDecimalsOf(l.hn, b[4], h)
                                  /\ {l.xc, l.yc, l.wn, l.hn} \subseteq 0..Million

\* C7 as stated: the step that meets an image absent on disk writes nothing
\* to the output and raises one of the script's counters by exactly one.
C7_MissingCounted ==
    [][(cpc = "loop" /\ idx' = idx + 1 /\ ~images[idx + 1].kind.exists) =>
          /\ out' = out
          /\ \E c \in DOMAIN counters : counters'[c] = counters[c] + 1]_vars

\* C8 as stated: no path is logged as saved for a file that was not
\* written.
C8_SavedMeansWritten ==
    \A k \in DOMAIN log : log[k].path \in DOMAIN snapshots

\* C9 as stated: every iteration of the loop, skipped frames included,
\* checks the quit key once.
C9_QuitCheckedEveryIteration == keyChecks = iters

\* C10 as stated: a snapshot file, once written, is never removed and its
\* content never replaced.
C10_NeverRewritten ==
    [][\A p \in DOMAIN snapshots :
          p \in DOMAIN snapshots' /\ snapshots'[p] = snapshots[p]]_vars

\* C10 amended: a snapshot file is never removed, and it is replaced only by
\* a violation in the same clock second as the write it replaces.
C10_RewrittenOnlySameSecond ==
    [][\A p \in DOMAIN snapshots :
          /\ p \in DOMAIN snapshots'
          /\ snapshots'[p] # snapshots[p] =>
                snapshots[p].mtime \div TicksPerSecond = clock \div TicksPerSecond]_vars

\* Two violations logged under one path, the file holding the later frame,
\* written one tick after the start of the second.
C10_Witness ==
    \E j, k \in DOMAIN log :
        /\ j < k
        /\ log[j].path = log[k].path
        /\ log[k].path \in DOMAIN snapshots
        /\ snapshots[log[k].path].frame = <<"cam", log[k].frame>>
        /\ snapshots[log[k].path].mtime % TicksPerSecond = 1

====
